---- MODULE Spec2Model ----
(***************************************************************************)
(* Model of src/App.tsx: the PDF converter screen.  The state is the three *)
(* React state cells (selectedFile, isConverting, downloadUrl), the        *)
(* asynchronous invocations of pickDocument, convertToPDF and openPDF that *)
(* are suspended at an await, the documents directory the PDF is written  *)
(* to, and the alert dialogs the latest step opened (alerts is <<>> after  *)
(* a step that calls Alert.alert not at all).                              *)
(*                                                                         *)
(* Strings are tuples of one-character strings, so that startsWith, split  *)
(* and the extension-stripping regex are computed rather than assumed.     *)
(* A nullable value is a tuple of length 0 (null) or 1 (the value).        *)
(***************************************************************************)
EXTENDS Integers, Sequences, FiniteSets, TLC

VARIABLES selectedFile, isConverting, downloadUrl, picks, convs, opens, alerts, fs

vars == <<selectedFile, isConverting, downloadUrl, picks, convs, opens, alerts, fs>>

(* ------------------------------ bounds -------------------------------- *)

\* Longest text payload, in lines, read by a conversion under ConvertSpec.
MaxLines == 120
\* Longest text payload, in lines, read by a conversion under Spec.
AppMaxLines == 1
\* pickDocument invocations that may be awaiting the picker at once.
MaxPicks == 1
\* openPDF invocations that may be suspended at once.
MaxOpens == 1
\* convertToPDF invocations the model can hold at once.
MaxInFlight == 2

(* ------------------------------ values -------------------------------- *)

None == <<>>
Some(v) == <<v>>

S_text_ == <<"t", "e", "x", "t", "/">>
S_image_ == <<"i", "m", "a", "g", "e", "/">>
S_text_plain == S_text_ \o <<"p", "l", "a", "i", "n">>
S_text_csv == S_text_ \o <<"c", "s", "v">>
S_Text_plain == <<"T">> \o Tail(S_text_plain)
S_text == <<"t", "e", "x", "t">>
S_image_png == S_image_ \o <<"p", "n", "g">>
S_image_jpeg == S_image_ \o <<"j", "p", "e", "g">>
S_image_gif == S_image_ \o <<"g", "i", "f">>
S_x_image_png == <<"x", "-">> \o S_image_png
S_application_zip == <<"a", "p", "p", "/", "z", "i", "p">>
S_unknown == <<"u", "n", "k", "n", "o", "w", "n">>
S_file == <<"f", "i", "l", "e">>
S_pdf == <<".", "p", "d", "f">>
S_title == <<"C", "o", "n", "v", "e", "r", "t", "e", "d", " ", "f", "r", "o", "m", ":", " ">>
S_details == <<"F", "i", "l", "e", " ", "C", "o", "n", "v", "e", "r", "s", "i", "o", "n", " ", "D", "e", "t", "a", "i", "l", "s">>
S_notes_txt == <<"n", ".", "t", "x", "t">>
S_notes_png == <<"n", ".", "p", "n", "g">>
S_photo_png == <<"p", ".", "p", "n", "g">>
S_anim_gif == <<"g", ".", "g", "i", "f">>
S_tar_gz == <<"a", ".", "t", ".", "g", "z">>
S_dotfile == <<".", "r", "c">>
S_trailing == <<"r", ".">>
S_dir_name == <<"v", ".", "1", "/", "b">>
\* FileSystem.documentDirectory
documentDirectory == <<"d", "/">>
LF == "\n"

(* --------------------------- string helpers --------------------------- *)

\* String.prototype.startsWith
startsWith(s, p) == Len(s) >= Len(p) /\ SubSeq(s, 1, Len(p)) = p

\* optional chaining: mimeType?.startsWith(p) is undefined (falsy) on null
optStartsWith(m, p) == m # None /\ startsWith(m[1], p)

\* String.prototype.split('\n'): the pieces of s[lo..hi] between line feeds,
\* in order.  The range is halved, and the last piece of the left half and the
\* first piece of the right half are the two ends of one piece.
RECURSIVE splitRange(_, _, _)
splitRange(s, lo, hi) ==
    IF lo > hi THEN << <<>> >>
    ELSE IF lo = hi THEN (IF s[lo] = LF THEN << <<>>, <<>> >> ELSE << <<s[lo]>> >>)
    ELSE LET mid == (lo + hi) \div 2
             L == splitRange(s, lo, mid)
             R == splitRange(s, mid + 1, hi)
         IN SubSeq(L, 1, Len(L) - 1) \o << L[Len(L)] \o R[1] >> \o Tail(R)

split(s) == splitRange(s, 1, Len(s))

\* name.replace(/\.[^/.]+$/, ''): the match starts at a dot that is followed,
\* up to the end, by one or more characters none of which is "/" or "."
extMatch(name, d) ==
    /\ name[d] = "."
    /\ d < Len(name)
    /\ \A j \in (d + 1)..Len(name) : name[j] \notin {"/", "."}

stripExtension(name) ==
    IF \E d \in 1..Len(name) : extMatch(name, d)
    THEN LET d == CHOOSE e \in 1..Len(name) : extMatch(name, e)
         IN SubSeq(name, 1, d - 1)
    ELSE name

\* `${FileSystem.documentDirectory}${name.replace(...)}.pdf`
pdfUri(name) == documentDirectory \o stripExtension(name) \o S_pdf

\* Number.prototype.toString for a natural number
RECURSIVE intStr(_)
intStr(n) ==
    LET digit == <<"0", "1", "2", "3", "4", "5", "6", "7", "8", "9">>[(n % 10) + 1]
    IN IF n < 10 THEN <<digit>> ELSE Append(intStr(n \div 10), digit)

\* (size / 1024).toFixed(2) + ' KB': hundredths of a KB, rounded to nearest
sizeKB(size) ==
    LET c == (size * 100 + 512) \div 1024
    IN intStr(c \div 100) \o <<".">> \o intStr((c % 100) \div 10) \o intStr(c % 10)
           \o <<" ", "K", "B">>

(* -------------------------- program constants ------------------------- *)

pageWidth == 595
pageHeight == 842
marginX == 50
titleY == 800
titleSize == 18
yStart == 750
yBottom == 50
fontSize == 12
lineHeight == 14
maxWidth == 500
imageY == 400
headerY == 700
headerSize == 16
detailsY == 650

(* -------------------------- document builder -------------------------- *)

\* PDFDocument.create(): a document is its sequence of pages, a page the
\* sequence of draw operations on it.  The code's `page` handle is always
\* the value of the latest addPage, i.e. the last page of the document.
emptyDoc == <<>>

\* pdfDoc.addPage([595, 842])
addPage(doc) == Append(doc, [size |-> <<pageWidth, pageHeight>>, ops |-> <<>>])

draw(doc, op) ==
    [doc EXCEPT ![Len(doc)].ops = Append(@, op)]

\* page.drawText(text, {x, y, size, maxWidth}); maxWidth 0 stands for none
drawText(doc, text, x, y, size, width) ==
    draw(doc, [kind |-> "text", text |-> text, x |-> x, y |-> y, size |-> size,
               maxWidth |-> width])

\* page.drawImage(image, {x, y, width, height})
drawImage(doc, img, x, y, w, h) ==
    draw(doc, [kind |-> "image", image |-> img, x |-> x, y |-> y, width |-> w,
               height |-> h])

\* (mutant: the title line is not drawn)
titledDocNoTitle(name) == addPage(emptyDoc)
\* lines 62-70: the first page with the title line
titledDoc(name) ==
    drawText(addPage(emptyDoc), S_title \o name, marginX, titleY, titleSize, 0)

(* ----------------------------- text layout ---------------------------- *)

\* (mutant: the page is left one line early, at the bottom margin itself)
needsBreakOff(y) == y <= yBottom
\* lines 81-84: the page break test made before a line is drawn
needsBreak(y) == y < yBottom

\* lines 80-93: the loop over the lines, from line k on with the cursor at y
\* (the test on Len(doc) only makes the evaluation of doc strict)
RECURSIVE layoutFrom(_, _, _, _)
layoutFrom(lines, k, doc, y) ==
    IF k > Len(lines) \/ Len(doc) = 0 THEN doc
    ELSE LET brk == needsBreak(y)
             y1 == IF brk THEN yStart ELSE y
             doc1 == IF brk THEN addPage(doc) ELSE doc
         IN layoutFrom(lines, k + 1,
                       drawText(doc1, lines[k], marginX, y1, fontSize, maxWidth),
                       y1 - lineHeight)

\* (mutant: the cursor starts at the title's height)
layoutTextFromTitle(doc, lines) == layoutFrom(lines, 1, doc, titleY)
\* lines 76-93: the cursor starts at 750
layoutText(doc, lines) == layoutFrom(lines, 1, doc, yStart)

(* ---------------------------- image embedding ------------------------- *)

\* (mutant: the image/png test is lost)
decoderAlwaysJpg(mimeType) == "embedJpg"
\* lines 107-111: the decoder the declared type selects
decoderFor(mimeType) ==
    IF mimeType = Some(S_image_png) THEN "embedPng" ELSE "embedJpg"

\* pdf-lib's decoders: embedPng accepts PNG bytes, embedJpg JPEG bytes
decodes(decoder, bytes) ==
    \/ decoder = "embedPng" /\ bytes = "png"
    \/ decoder = "embedJpg" /\ bytes = "jpeg"

\* the decoded raster with its intrinsic dimensions
embedded(bytes) == [format |-> bytes, width |-> 200, height |-> 100]

\* lines 113-120: scale(0.5) and the single drawImage
placeImage(doc, img) ==
    drawImage(doc, img, marginX, imageY, img.width \div 2, img.height \div 2)

(* --------------------------- metadata fallback ------------------------ *)

\* lines 125-144
describeFile(doc, file, info) ==
    LET typ == IF file.mimeType # None /\ file.mimeType[1] # <<>>
               THEN file.mimeType[1] ELSE S_unknown
        size == IF info.exists THEN sizeKB(info.size) ELSE S_unknown
        text == file.name \o <<LF>> \o typ \o <<LF>> \o size
    IN drawText(drawText(doc, S_details, marginX, headerY, headerSize, 0),
                text, marginX, detailsY, fontSize, 0)

(* ------------------------------ dispatcher ---------------------------- *)

\* (mutant: the second test is an if of its own, not an else-if)
strategiesIndependentIfs(mimeType) ==
    (IF optStartsWith(mimeType, S_text_) THEN {"text"} ELSE {})
        \cup (IF optStartsWith(mimeType, S_image_) THEN {"image"} ELSE {"fallback"})
\* lines 73, 95, 122: the if / else-if / else chain.  The result is the set of
\* branches whose body runs.
strategies(mimeType) ==
    IF optStartsWith(mimeType, S_text_) THEN {"text"}
    ELSE IF optStartsWith(mimeType, S_image_) THEN {"image"}
    ELSE {"fallback"}

\* the first awaited call of each branch, and the branch order in the code
firstStage(s) ==
    CASE s = "text" -> "readText" [] s = "image" -> "readImage" [] s = "fallback" -> "getInfo"

branchOrder == <<"text", "image", "fallback">>

\* where control goes after branch number k (0: after the title): to the next
\* branch that runs, or to pdfDoc.save() on line 148
stageAfter(ran, k) ==
    IF \E j \in (k + 1)..3 : branchOrder[j] \in ran
    THEN LET j == CHOOSE m \in (k + 1)..3 :
                      /\ branchOrder[m] \in ran
                      /\ \A l \in (k + 1)..(m - 1) : branchOrder[l] \notin ran
         IN firstStage(branchOrder[j])
    ELSE "save"

(* ------------------------------- inputs ------------------------------- *)

\* what DocumentPicker.getDocumentAsync can return as assets[0]: the name may
\* be empty and the MIME type absent or empty
asset(u, n, m) == [uri |-> u, name |-> n, mimeType |-> m]

AppAssets ==
    { asset(1, S_notes_txt, Some(S_text_plain)),
      asset(2, S_notes_png, Some(S_image_png)),
      asset(3, <<>>, None) }

AllAssets ==
    AppAssets \cup
    { asset(4, S_anim_gif, Some(S_image_gif)),
      asset(5, S_photo_png, Some(S_image_jpeg)),
      asset(6, S_tar_gz, Some(S_application_zip)),
      asset(7, S_dotfile, Some(S_text_csv)),
      asset(8, S_trailing, Some(S_Text_plain)),
      asset(9, S_dir_name, Some(S_text)),
      asset(10, S_notes_txt, Some(S_x_image_png)),
      asset(11, S_notes_txt, Some(<<>>)),
      asset(12, S_notes_txt, Some(S_image_)) }

\* lines 39-43: name || 'file', mimeType || null
toSelected(a) ==
    [uri |-> a.uri,
     name |-> IF a.name = <<>> THEN S_file ELSE a.name,
     mimeType |-> IF a.mimeType = None \/ a.mimeType = Some(<<>>) THEN None
                  ELSE a.mimeType]

\* a text payload of n lines, each "x", joined by line feeds
payload(n) == [i \in 1..(2 * n - 1) |-> IF i % 2 = 1 THEN "x" ELSE LF]

Payloads(max) == { payload(n) : n \in 1..max }

\* the same, with the empty file and a file that ends in a line feed
AllPayloads(max) == Payloads(max) \cup { <<>>, <<"x", LF>> }

\* what the bytes of an image source really are, whatever its declared type
ImageBytes == {"png", "jpeg", "gif"}

\* FileSystem.getInfoAsync of the source
FileInfos == { [exists |-> FALSE, size |-> 0], [exists |-> TRUE, size |-> 2048] }

(* ------------------------------- alerts ------------------------------- *)

alertPickFailed == [title |-> "Error", message |-> "Failed to pick document"]
alertConvertFailed == [title |-> "Error", message |-> "Failed to convert file"]
alertSuccess == [title |-> "Success", message |-> "File converted to PDF successfully!"]
alertNotFound == [title |-> "Error", message |-> "PDF file not found"]
alertOpenFailed == [title |-> "Error", message |-> "Failed to open PDF"]

removeAt(seq, i) == SubSeq(seq, 1, i - 1) \o SubSeq(seq, i + 1, Len(seq))

(* -------------------------------- state ------------------------------- *)

Init ==
    /\ selectedFile = None
    /\ isConverting = FALSE
    /\ downloadUrl = None
    /\ picks = 0
    /\ convs = <<>>
    /\ opens = <<>>
    /\ alerts = <<>>
    /\ fs = [p \in {} |-> emptyDoc]

(* ----------------------------- pickDocument --------------------------- *)

\* "Select File" pressed (disabled while converting): runs to the await on line 33
PressSelect ==
    /\ ~isConverting
    /\ picks < MaxPicks
    /\ picks' = picks + 1
    /\ alerts' = <<>>
    /\ UNCHANGED <<selectedFile, isConverting, downloadUrl, convs, opens, fs>>

\* lines 37-45: the picker returns an asset
PickDone(a) ==
    /\ picks > 0
    /\ picks' = picks - 1
    /\ selectedFile' = Some(toSelected(a))
    /\ downloadUrl' = None
    /\ alerts' = <<>>
    /\ UNCHANGED <<isConverting, convs, opens, fs>>

\* line 37: result.canceled, or no assets
PickCanceled ==
    /\ picks > 0
    /\ picks' = picks - 1
    /\ alerts' = <<>>
    /\ UNCHANGED <<selectedFile, isConverting, downloadUrl, convs, opens, fs>>

\* lines 46-48
PickFail ==
    /\ picks > 0
    /\ picks' = picks - 1
    /\ alerts' = <<alertPickFailed>>
    /\ UNCHANGED <<selectedFile, isConverting, downloadUrl, convs, opens, fs>>

(* ----------------------------- convertToPDF --------------------------- *)

\* the locals of an invocation of convertToPDF that is suspended at the await
\* of PDFDocument.create(): the selectedFile of its closure, the document, the
\* branches run, the lines and the image bytes read, and the destination
newConversion(file) ==
    [file |-> file, pc |-> "create", doc |-> emptyDoc, ran |-> {}, lines |-> <<>>,
     bytes |-> "", uri |-> <<>>]

\* (mutant: the button is not disabled while a conversion runs)
PressConvertNoGuard ==
    /\ selectedFile # None
    /\ Len(convs) < MaxInFlight
    /\ isConverting' = TRUE
    /\ convs' = Append(convs, newConversion(selectedFile[1]))
    /\ alerts' = <<>>
    /\ UNCHANGED <<selectedFile, downloadUrl, picks, opens, fs>>
\* "Convert to PDF" pressed.  The button is disabled when no file is selected
\* or a conversion runs (line 212), so the early return of lines 53-56 is never
\* taken.  Lines 58-61: setIsConverting(true), then the await of create().
\* The invocation keeps the selectedFile of the render it was started from.
PressConvert ==
    /\ selectedFile # None
    /\ ~isConverting
    /\ Len(convs) < MaxInFlight
    /\ isConverting' = TRUE
    /\ convs' = Append(convs, newConversion(selectedFile[1]))
    /\ alerts' = <<>>
    /\ UNCHANGED <<selectedFile, downloadUrl, picks, opens, fs>>

\* lines 61-74, 95-99, 122-124: the document is created, the title page drawn,
\* and the branch chosen by the declared type starts its first read
CreateDone(i) ==
    /\ convs[i].pc = "create"
    /\ LET ran == strategies(convs[i].file.mimeType)
       IN convs' = [convs EXCEPT ![i].doc = titledDoc(convs[i].file.name),
                                 ![i].ran = ran,
                                 ![i].pc = stageAfter(ran, 0)]
    /\ alerts' = <<>>
    /\ UNCHANGED <<selectedFile, isConverting, downloadUrl, picks, opens, fs>>

\* lines 74-93: readAsStringAsync returns the text, which is laid out
ReadTextDone(i, text) ==
    /\ convs[i].pc = "readText"
    /\ convs' = [convs EXCEPT ![i].lines = split(text),
                              ![i].doc = layoutText(@, split(text)),
                              ![i].pc = stageAfter(convs[i].ran, 1)]
    /\ alerts' = <<>>
    /\ UNCHANGED <<selectedFile, isConverting, downloadUrl, picks, opens, fs>>

\* lines 97-111: the base64 payload is read and decoded, and handed to the
\* decoder the declared type selects
ReadImageDone(i, bytes) ==
    /\ convs[i].pc = "readImage"
    /\ convs' = [convs EXCEPT ![i].bytes = bytes,
                              ![i].pc = decoderFor(convs[i].file.mimeType)]
    /\ alerts' = <<>>
    /\ UNCHANGED <<selectedFile, isConverting, downloadUrl, picks, opens, fs>>

\* lines 108-120: the decoder accepts the bytes; the image is scaled and drawn
EmbedDone(i) ==
    /\ convs[i].pc \in {"embedPng", "embedJpg"}
    /\ decodes(convs[i].pc, convs[i].bytes)
    /\ convs' = [convs EXCEPT ![i].doc = placeImage(@, embedded(convs[i].bytes)),
                              ![i].pc = stageAfter(convs[i].ran, 2)]
    /\ alerts' = <<>>
    /\ UNCHANGED <<selectedFile, isConverting, downloadUrl, picks, opens, fs>>

\* lines 124-144: getInfoAsync returns and the description is drawn
GetInfoDone(i, info) ==
    /\ convs[i].pc = "getInfo"
    /\ convs' = [convs EXCEPT ![i].doc = describeFile(@, convs[i].file, info),
                              ![i].pc = stageAfter(convs[i].ran, 3)]
    /\ alerts' = <<>>
    /\ UNCHANGED <<selectedFile, isConverting, downloadUrl, picks, opens, fs>>

\* lines 148-159: save() returns the bytes (the document as it stands), the
\* destination is derived from the name and writeAsStringAsync is called
SaveDone(i) ==
    /\ convs[i].pc = "save"
    /\ convs' = [convs EXCEPT ![i].uri = pdfUri(convs[i].file.name),
                              ![i].pc = "write"]
    /\ alerts' = <<>>
    /\ UNCHANGED <<selectedFile, isConverting, downloadUrl, picks, opens, fs>>

\* lines 157-162 and 166-168: the write succeeded
WriteDone(i) ==
    /\ convs[i].pc = "write"
    /\ fs' = [p \in DOMAIN fs \cup {convs[i].uri} |->
                  IF p = convs[i].uri THEN convs[i].doc ELSE fs[p]]
    /\ downloadUrl' = Some(convs[i].uri)
    /\ alerts' = <<alertSuccess>>
    /\ isConverting' = FALSE
    /\ convs' = removeAt(convs, i)
    /\ UNCHANGED <<selectedFile, picks, opens>>

\* (mutant: setDownloadUrl sits in the finally block)
ConvFailSetsUrl(i) ==
    /\ alerts' = <<alertConvertFailed>>
    /\ isConverting' = FALSE
    /\ downloadUrl' = Some(pdfUri(convs[i].file.name))
    /\ convs' = removeAt(convs, i)
    /\ UNCHANGED <<selectedFile, picks, opens, fs>>
\* (mutant: no finally block; the invocation ends with isConverting still set)
ConvFailNoFinally(i) ==
    /\ convs[i].pc # "failed"
    /\ alerts' = <<alertConvertFailed>>
    /\ convs' = [convs EXCEPT ![i].pc = "failed"]
    /\ UNCHANGED <<selectedFile, isConverting, downloadUrl, picks, opens, fs>>
\* lines 163-168: the awaited call rejects, or the code that follows it throws
\* (a read error, bytes the decoder rejects, a character drawText cannot
\* encode, a failed save or write): catch shows the alert, finally resets
ConvFail(i) ==
    /\ alerts' = <<alertConvertFailed>>
    /\ isConverting' = FALSE
    /\ convs' = removeAt(convs, i)
    /\ UNCHANGED <<selectedFile, downloadUrl, picks, opens, fs>>

\* one step of invocation i of convertToPDF, reading a text payload of texts
ConvStep(i, texts) ==
    \/ CreateDone(i)
    \/ \E text \in texts : ReadTextDone(i, text)
    \/ \E bytes \in ImageBytes : ReadImageDone(i, bytes)
    \/ EmbedDone(i)
    \/ \E info \in FileInfos : GetInfoDone(i, info)
    \/ SaveDone(i)
    \/ WriteDone(i)
    \/ ConvFail(i)

(* -------------------------------- openPDF ----------------------------- *)

\* "Open PDF" pressed (rendered only while downloadUrl is set, line 217; line
\* 173 returns when it is null): runs to the await of getInfoAsync on line 177
PressOpen ==
    /\ downloadUrl # None
    /\ Len(opens) < MaxOpens
    /\ opens' = Append(opens, [url |-> downloadUrl[1], pc |-> "getInfo"])
    /\ alerts' = <<>>
    /\ UNCHANGED <<selectedFile, isConverting, downloadUrl, picks, convs, fs>>

\* lines 177-184
OpenInfoDone(i) ==
    /\ opens[i].pc = "getInfo"
    /\ IF opens[i].url \in DOMAIN fs
       THEN /\ opens' = [opens EXCEPT ![i].pc = "contentUri"]
            /\ alerts' = <<>>
       ELSE /\ opens' = removeAt(opens, i)
            /\ alerts' = <<alertNotFound>>
    /\ UNCHANGED <<selectedFile, isConverting, downloadUrl, picks, convs, fs>>

\* lines 184-187
OpenUriDone(i) ==
    /\ opens[i].pc = "contentUri"
    /\ opens' = [opens EXCEPT ![i].pc = "openURL"]
    /\ alerts' = <<>>
    /\ UNCHANGED <<selectedFile, isConverting, downloadUrl, picks, convs, fs>>

\* line 187: the viewer was launched
OpenDone(i) ==
    /\ opens[i].pc = "openURL"
    /\ opens' = removeAt(opens, i)
    /\ alerts' = <<>>
    /\ UNCHANGED <<selectedFile, isConverting, downloadUrl, picks, convs, fs>>

\* (mutant: the failed open clears downloadUrl)
OpenFailForgetsUrl(i) ==
    /\ opens' = removeAt(opens, i)
    /\ alerts' = <<alertOpenFailed>>
    /\ downloadUrl' = None
    /\ UNCHANGED <<selectedFile, isConverting, picks, convs, fs>>
\* lines 188-191: an awaited call of openPDF rejects
OpenFail(i) ==
    /\ opens' = removeAt(opens, i)
    /\ alerts' = <<alertOpenFailed>>
    /\ UNCHANGED <<selectedFile, isConverting, downloadUrl, picks, convs, fs>>

OpenStep(i) ==
    \/ OpenInfoDone(i)
    \/ OpenUriDone(i)
    \/ OpenDone(i)
    \/ OpenFail(i)

\* the documents directory is storage the platform shares: a written PDF can
\* be gone by the time openPDF probes it (the case lines 178-181 handle)
FileRemoved(p) ==
    /\ p \in DOMAIN fs
    /\ fs' = [q \in DOMAIN fs \ {p} |-> fs[q]]
    /\ alerts' = <<>>
    /\ UNCHANGED <<selectedFile, isConverting, downloadUrl, picks, convs, opens>>

(* ---------------------------- specifications -------------------------- *)

PickStep ==
    \/ \E a \in AppAssets : PickDone(a)
    \/ PickCanceled
    \/ PickFail

Next ==
    \/ PressSelect
    \/ PickStep
    \/ PressConvert
    \/ \E i \in 1..Len(convs) : ConvStep(i, Payloads(AppMaxLines))
    \/ PressOpen
    \/ \E i \in 1..Len(opens) : OpenStep(i)
    \/ \E p \in DOMAIN fs : FileRemoved(p)

Spec == Init /\ [][Next]_vars

\* Picking and converting without openPDF, whose steps change nothing a
\* conversion or a button's state reads.  Every awaited step of a conversion
\* eventually completes or fails.
PickConvertNext ==
    \/ PressSelect
    \/ PickStep
    \/ PressConvert
    \/ \E i \in 1..Len(convs) : ConvStep(i, Payloads(AppMaxLines))

FairSpec ==
    /\ Init
    /\ [][PickConvertNext]_vars
    /\ WF_vars(\E i \in 1..Len(convs) : ConvStep(i, Payloads(AppMaxLines)))

\* The conversion alone, on every kind of selected file and on long texts: one
\* invocation of convertToPDF, from the state in which a file was picked and
\* "Convert to PDF" has just been pressed.
ConvertInit ==
    /\ selectedFile \in { Some(toSelected(a)) : a \in AllAssets }
    /\ isConverting = TRUE
    /\ downloadUrl = None
    /\ picks = 0
    /\ convs = <<newConversion(selectedFile[1])>>
    /\ opens = <<>>
    /\ alerts = <<>>
    /\ fs = [p \in {} |-> emptyDoc]

ConvertNext == \E i \in 1..Len(convs) : ConvStep(i, AllPayloads(MaxLines))

ConvertSpec == ConvertInit /\ [][ConvertNext]_vars

(* ------------------------ properties: text layout --------------------- *)

\* the invocations whose text layout has run to its end
Laid == { i \in 1..Len(convs) : "text" \in convs[i].ran /\ convs[i].pc \in {"save", "write"} }

\* the lines the text layout drew on a page (the only texts with a maxWidth)
isLine(op) == op.kind = "text" /\ op.maxWidth = maxWidth
textLines(page) == SelectSeq(page.ops, isLine)
lineCounts(doc) == [p \in 1..Len(doc) |-> Len(textLines(doc[p]))]

\* the title lines drawn on a page for the file called name
isTitle(op, name) == op.kind = "text" /\ op.text = S_title \o name
titles(page, name) == SelectSeq(page.ops, LAMBDA op : isTitle(op, name))

\* the cursor positions 750, 736, ..., 50 at which a page takes a line
pageCapacity == (yStart - yBottom) \div lineHeight + 1

\* C1 as stated: a text of n lines gives 1 page when n <= 50 and
\* 1 + floor((n - 50) / 50) pages otherwise.
C1_PagesFor50 ==
    \A i \in Laid :
        LET n == Len(convs[i].lines)
        IN Len(convs[i].doc) = IF n <= 50 THEN 1 ELSE 1 + (n - 50) \div 50

\* C1 amended: a text of n lines gives 1 page when n does not exceed the page
\* capacity and 1 + floor((n - 1) / capacity) pages otherwise, where a page
\* takes 51 lines (the cursor runs from 750 down to 50 inclusive).
C1_PageCount ==
    /\ pageCapacity = 51
    /\ \A i \in Laid :
           LET n == Len(convs[i].lines)
           IN Len(convs[i].doc) = IF n <= pageCapacity THEN 1
                                  ELSE 1 + (n - 1) \div pageCapacity

\* C1: a text of more than 102 lines has been laid out on 3 pages
C1_Witness ==
    \E i \in Laid : Len(convs[i].lines) > 2 * pageCapacity /\ Len(convs[i].doc) = 3

\* C2 as stated: a text of 120 lines gives 3 pages of 50, 50 and 20 lines, with
\* the title once on page 1 and on no later page.
C2_Pages50_50_20 ==
    \A i \in Laid :
        Len(convs[i].lines) = 120 =>
            /\ lineCounts(convs[i].doc) = <<50, 50, 20>>
            /\ Len(titles(convs[i].doc[1], convs[i].file.name)) = 1

\* C2 amended: a text of 120 lines gives exactly 3 pages that carry 51, 51 and
\* 18 lines (every page but the last holds exactly 51), with the title line
\* drawn exactly once, on page 1, and on no later page.
C2_Pages51_51_18 ==
    \A i \in Laid :
        LET doc == convs[i].doc
        IN Len(convs[i].lines) = 120 =>
               /\ lineCounts(doc) = <<51, 51, 18>>
               /\ Len(titles(doc[1], convs[i].file.name)) = 1
               /\ \A p \in 2..Len(doc) : titles(doc[p], convs[i].file.name) = <<>>

\* C2: a text of 120 lines has been laid out
C2_Witness ==
    \E i \in Laid : Len(convs[i].lines) = 120 /\ Len(convs[i].doc) = 3

\* C8: every line is drawn at a y with 50 <= y <= 750; on a page the first
\* line is at 750 and each next one exactly 14 lower; and a page is left for a
\* new one exactly when the cursor has come below 50, so every page but the
\* last is full and no page has a line below the bottom margin.
C8_LinePositions ==
    \A i \in Laid :
        LET doc == convs[i].doc
        IN \A p \in 1..Len(doc) :
               LET ls == textLines(doc[p])
               IN /\ Len(ls) >= 1
                  /\ ls[1].y = yStart
                  /\ \A j \in 1..Len(ls) : yBottom <= ls[j].y /\ ls[j].y <= yStart
                  /\ \A j \in 1..(Len(ls) - 1) : ls[j + 1].y = ls[j].y - lineHeight
                  /\ p < Len(doc) => ls[Len(ls)].y - lineHeight < yBottom

\* C8: a text has filled page 1 down to y = 50 and gone on to page 2
C8_Witness ==
    \E i \in Laid :
        /\ Len(convs[i].doc) >= 2
        /\ \E j \in 1..Len(textLines(convs[i].doc[1])) : textLines(convs[i].doc[1])[j].y = yBottom

(* ------------------------- properties: dispatch ----------------------- *)

\* the branches whose drawing is found in a document
hasOp(doc, P(_)) == \E p \in 1..Len(doc) : \E k \in 1..Len(doc[p].ops) : P(doc[p].ops[k])
isImageOp(op) == op.kind = "image"
isDetailsOp(op) == op.kind = "text" /\ op.text = S_details
drawn(doc) ==
    (IF hasOp(doc, isLine) THEN {"text"} ELSE {})
        \cup (IF hasOp(doc, isImageOp) THEN {"image"} ELSE {})
        \cup (IF hasOp(doc, isDetailsOp) THEN {"fallback"} ELSE {})

\* C3: an invocation runs exactly one branch, the first that matches: text
\* layout for a type that starts with text/, else image embedding for a type
\* that starts with image/, else (any other type, or none) the fallback.
C3_OneStrategy ==
    \A i \in 1..Len(convs) :
        LET c == convs[i]
            m == c.file.mimeType
            isText == m # None /\ Len(m[1]) >= 5 /\ SubSeq(m[1], 1, 5) = S_text_
            isImage == m # None /\ Len(m[1]) >= 6 /\ SubSeq(m[1], 1, 6) = S_image_
            want == IF isText THEN "text" ELSE IF isImage THEN "image" ELSE "fallback"
        IN c.pc # "create" =>
               /\ c.ran = {want}
               /\ c.pc \in {"save", "write"} => drawn(c.doc) = {want}

\* C3: a file without a type has gone through the fallback alone
C3_Witness ==
    /\ \E i \in 1..Len(convs) :
           /\ convs[i].file.mimeType = None
           /\ convs[i].pc = "save"
           /\ drawn(convs[i].doc) = {"fallback"}

\* C4 as stated: a payload declared image/gif is handed to no decoder and its
\* conversion fails.
C4_GifRejected ==
    \A i \in 1..Len(convs) :
        convs[i].file.mimeType = Some(S_image_gif) =>
            convs[i].pc \notin {"embedPng", "embedJpg", "save", "write"}

\* C4 amended: a payload declared image/gif is handed to the JPEG decoder,
\* never to the PNG decoder, and its conversion goes on only when its bytes
\* are JPEG; image/png alone reaches the PNG decoder and every other image/
\* type the JPEG decoder.
C4_GifToJpegDecoder ==
    \A i \in 1..Len(convs) :
        LET c == convs[i]
            m == c.file.mimeType
        IN /\ c.pc = "embedPng" => m = Some(S_image_png)
           /\ c.pc = "embedJpg" => optStartsWith(m, S_image_) /\ m # Some(S_image_png)
           /\ (m = Some(S_image_gif) /\ c.pc \in {"save", "write"}) => c.bytes = "jpeg"

\* C4: an image/gif payload is at the JPEG decoder
C4_Witness ==
    \E i \in 1..Len(convs) :
        convs[i].file.mimeType = Some(S_image_gif) /\ convs[i].pc = "embedJpg"

(* ---------------------- properties: the application ------------------- *)

\* invocation i of convertToPDF ends in this step
ends(i) == i \in 1..Len(convs) /\ convs' = removeAt(convs, i)

\* C5: a conversion that fails before the write (at the create, a read, the
\* embed, a draw or the save) ends there: the write was never called (no
\* destination was derived), the step leaves downloadUrl and the documents
\* directory as they were and shows the one Error alert and no Success alert;
\* and no earlier step of a conversion shows an alert or touches either.
C5_FailureAborts ==
    [][ /\ \A i \in 1..Len(convs) :
               (ends(i) /\ convs[i].pc # "write") =>
                   /\ convs[i].uri = <<>>
                   /\ downloadUrl' = downloadUrl
                   /\ fs' = fs
                   /\ alerts' = <<alertConvertFailed>>
        /\ (convs' # convs /\ Len(convs') = Len(convs)) =>
               /\ downloadUrl' = downloadUrl
               /\ fs' = fs
               /\ alerts' = <<>>
      ]_vars

\* C5: a conversion has failed after an earlier one had set downloadUrl
C5_Witness ==
    /\ alerts = <<alertConvertFailed>>
    /\ convs = <<>>
    /\ downloadUrl # None
    /\ ~isConverting

\* C6: at most one invocation of convertToPDF is in flight, and isConverting is
\* set for as long as it is, so that no second one can be started.
C6_OneInFlight ==
    /\ Len(convs) <= 1
    /\ isConverting <=> convs # <<>>

\* C6: a second conversion is at its write, with a pick pending
C6_Witness ==
    /\ Len(convs) = 1
    /\ convs[1].pc = "write"
    /\ downloadUrl # None
    /\ picks > 0

\* C7: a step of openPDF (the press, a completed await, the missing file, a
\* failure) leaves selectedFile, isConverting, downloadUrl and the written
\* files as they are, and an invocation starts only when downloadUrl is set.
C7_OpenChangesNothing ==
    [][ opens' # opens =>
            /\ UNCHANGED <<selectedFile, isConverting, downloadUrl, fs>>
            /\ Len(opens') > Len(opens) => downloadUrl # None
      ]_vars

\* C7: an open has failed, and downloadUrl and the file are still there
C7_Witness ==
    /\ alerts = <<alertOpenFailed>>
    /\ opens = <<>>
    /\ downloadUrl # None
    /\ downloadUrl[1] \in DOMAIN fs

\* C9: a conversion that has set isConverting sets it back, on success and on
\* failure, and the screen is then idle with a file selected: "Select File"
\* and "Convert to PDF" are enabled again.
C9_ReturnsToIdle ==
    isConverting ~> (~isConverting /\ convs = <<>> /\ selectedFile # None)

\* C9: a failed conversion has returned the screen to idle
C9_Witness ==
    /\ ~isConverting
    /\ alerts = <<alertConvertFailed>>
    /\ selectedFile # None
    /\ downloadUrl = None

\* C10: a downloadUrl that is set is the PDF path of the selected file.
C10_UrlOfSelectedFile ==
    downloadUrl # None =>
        /\ selectedFile # None
        /\ downloadUrl = Some(pdfUri(selectedFile[1].name))

====
